---- MODULE Spec2Model ----
(***************************************************************************)
(* Model of the Letterboxd diary proxy (netlify/functions/letterboxd-      *)
(* proxy.js) and of the App component that calls it.                       *)
(*                                                                         *)
(* Strings the code inspects character by character (slugs, attribute      *)
(* values) are sequences of one-character strings.  Indices passed between *)
(* the JavaScript helpers are 0-based, as in the source.                   *)
(***************************************************************************)
EXTENDS Integers, Sequences, FiniteSets, TLC

VARIABLES
    \* stripYearFromSlug applied to a string, then to its own result
    slug, once, twice, spc,
    \* getMovieDataFromHtml on one diary row, and the entry as serialized into
    \* the response body
    row, movie, entryJson, ppc,
    \* one invocation of handler(event): the event, the remote site, the
    \* handler's position, the fetches issued so far (in order), the state of
    \* the first page's fetch, its response status and entries, the planned
    \* page addresses, each page promise's state and value, the order in which
    \* the page promises were fulfilled, and the handler's response
    event, site, hpc, issued, fstate, firstStatus, movies, pageUrls, pstate,
    pvalue, completed, response,
    \* the App component: its five pieces of React state and the fetchData
    \* invocations started so far
    appState, user1Username, user2Username, error, userData, calls

slugVars == <<slug, once, twice, spc>>
parseVars == <<row, movie, entryJson, ppc>>
handlerVars == <<event, site, hpc, issued, fstate, firstStatus, movies, pageUrls,
                 pstate, pvalue, completed, response>>
appVars == <<appState, user1Username, user2Username, error, userData, calls>>
vars == <<slugVars, parseVars, handlerVars, appVars>>

\* JavaScript null / undefined / a missing attribute.  Strings are sequences
\* of one-character strings, so this one-element sequence is none of them.
Null == <<"null">>

(***************************************************************************)
(* Bounds of the model                                                     *)
(***************************************************************************)
MaxSlugLen == 6
MaxYearSlugLen == 10
MaxIdLen == 2
MaxAttrLen == 6
MaxSegs == 5
MaxPages == 3
MaxRows == 2
MaxCalls == 2

(***************************************************************************)
(* The parts of the state a specification does not exercise stay idle.     *)
(***************************************************************************)
IdleSlug == slug = <<>> /\ once = Null /\ twice = Null /\ spc = "idle"
IdleParse == row = Null /\ movie = Null /\ entryJson = Null /\ ppc = "idle"
IdleHandler ==
    /\ event = Null /\ site = Null /\ hpc = "idle" /\ issued = <<>>
    /\ fstate = "none" /\ firstStatus = 0 /\ movies = <<>> /\ pageUrls = <<>>
    /\ pstate = <<>> /\ pvalue = <<>> /\ completed = <<>>
    /\ response = [statusCode |-> 0, body |-> [pending |-> TRUE]]
IdleApp ==
    /\ appState = "idle" /\ user1Username = <<>> /\ user2Username = <<>>
    /\ error = Null /\ userData = Null /\ calls = <<>>

(***************************************************************************)
(* String helpers of JavaScript                                            *)
(***************************************************************************)
Strs(chars, n) == UNION {[1..k -> chars] : k \in 0..n}

Digits == {"0", "1", "2", "3", "4", "5", "6", "7", "8", "9"}
HexDigits == Digits \cup {"a", "b", "c", "d", "e", "f", "A", "B", "C", "D", "E", "F"}
WhiteSpace == {" "}

AllIn(s, S) == \A i \in 1..Len(s) : s[i] \in S

\* s.slice(from, to), 0-based, 0 <= from, to <= s.length
Slice(s, from, to) == SubSeq(s, from + 1, to)

\* s.lastIndexOf(c): 0-based index of the last c, -1 when there is none
LastIndexOf(s, c) ==
    IF \E i \in 1..Len(s) : s[i] = c
    THEN (CHOOSE i \in 1..Len(s) : s[i] = c /\ \A j \in (i+1)..Len(s) : s[j] # c) - 1
    ELSE -1

\* s.trim()
RECURSIVE TrimStart(_)
TrimStart(s) == IF s # <<>> /\ s[1] \in WhiteSpace THEN TrimStart(Tail(s)) ELSE s
RECURSIVE TrimEnd(_)
TrimEnd(s) ==
    IF s # <<>> /\ s[Len(s)] \in WhiteSpace THEN TrimEnd(SubSeq(s, 1, Len(s) - 1)) ELSE s
Trim(s) == TrimEnd(TrimStart(s))

(***************************************************************************)
(* isNaN(string): the argument is converted with ToNumber, whose string    *)
(* grammar is StringNumericLiteral: surrounding white space is dropped, the*)
(* empty string is 0, and the rest is a signed decimal literal (with       *)
(* optional fraction and exponent), Infinity, or an unsigned 0x/0o/0b      *)
(* literal.                                                                *)
(***************************************************************************)
IsExponentPart(e) ==
    /\ Len(e) >= 2
    /\ e[1] \in {"e", "E"}
    /\ LET r == Tail(e)
           d == IF r[1] \in {"+", "-"} THEN Tail(r) ELSE r
       IN  d # <<>> /\ AllIn(d, Digits)

IsMantissa(m) ==
    \E j \in 0..Len(m) :
        LET int == SubSeq(m, 1, j)
            rest == SubSeq(m, j + 1, Len(m))
        IN  /\ AllIn(int, Digits)
            /\ \/ rest = <<>> /\ j > 0
               \/ /\ rest # <<>>
                  /\ rest[1] = "."
                  /\ AllIn(Tail(rest), Digits)
                  /\ (j > 0 \/ Len(rest) > 1)

IsUnsignedDecimal(u) ==
    \E i \in 0..Len(u) :
        /\ IsMantissa(SubSeq(u, 1, i))
        /\ (i = Len(u) \/ IsExponentPart(SubSeq(u, i + 1, Len(u))))

IsRadixLiteral(t) ==
    /\ Len(t) >= 3
    /\ t[1] = "0"
    /\ \/ t[2] \in {"x", "X"} /\ AllIn(SubSeq(t, 3, Len(t)), HexDigits)
       \/ t[2] \in {"o", "O"} /\ AllIn(SubSeq(t, 3, Len(t)), {"0","1","2","3","4","5","6","7"})
       \/ t[2] \in {"b", "B"} /\ AllIn(SubSeq(t, 3, Len(t)), {"0", "1"})

Infinity == <<"I", "n", "f", "i", "n", "i", "t", "y">>

StringIsNumber(s) ==
    LET t == Trim(s)
        u == IF t # <<>> /\ t[1] \in {"+", "-"} THEN Tail(t) ELSE t
    IN  \/ t = <<>>
        \/ u = Infinity
        \/ IsUnsignedDecimal(u)
        \/ IsRadixLiteral(t)

IsNaNString(s) == ~StringIsNumber(s)

(***************************************************************************)
(* stripYearFromSlug                                                       *)
(***************************************************************************)
YearLen == 4
MinSlugLen == 5

\* the function without its possibleYear.length === 4 test
stripYearFromSlug_AnyLength(s) ==
    IF s # Null /\ s # <<>> /\ Len(s) >= MinSlugLen
    THEN LET lastHyphenIndex == LastIndexOf(s, "-")
             possibleYear == Slice(s, lastHyphenIndex + 1, Len(s))
         IN  IF lastHyphenIndex # -1 /\ ~IsNaNString(possibleYear)
             THEN Slice(s, 0, lastHyphenIndex)
             ELSE s
    ELSE s

stripYearFromSlug(s) ==
    IF s # Null /\ s # <<>> /\ Len(s) >= MinSlugLen
    THEN LET lastHyphenIndex == LastIndexOf(s, "-")
             possibleYear == Slice(s, lastHyphenIndex + 1, Len(s))
         IN  IF /\ lastHyphenIndex # -1
                /\ Len(possibleYear) = YearLen
                /\ ~IsNaNString(possibleYear)
             THEN Slice(s, 0, lastHyphenIndex)
             ELSE s
    ELSE s

(***************************************************************************)
(* Specification SpecSlug: stripYearFromSlug on every bounded string, and  *)
(* on its own result.                                                      *)
(***************************************************************************)
WideChars == {"a", "-", "1", "0", "x", "e", " "}
NarrowChars == {"a", "-", "1"}
SlugInputs == Strs(WideChars, MaxSlugLen) \cup Strs(NarrowChars, MaxYearSlugLen)

InitSlug ==
    /\ IdleParse /\ IdleHandler /\ IdleApp
    /\ slug \in SlugInputs
    /\ once = Null
    /\ twice = Null
    /\ spc = "input"

Strip ==
    /\ spc = "input"
    /\ once' = stripYearFromSlug(slug)
    /\ spc' = "once"
    /\ UNCHANGED <<slug, twice>>
    /\ UNCHANGED <<parseVars, handlerVars, appVars>>

StripAgain ==
    /\ spc = "once"
    /\ twice' = stripYearFromSlug(once)
    /\ spc' = "twice"
    /\ UNCHANGED <<slug, once>>
    /\ UNCHANGED <<parseVars, handlerVars, appVars>>

NextSlug == Strip \/ StripAgain

SpecSlug == InitSlug /\ [][NextSlug]_vars

(***************************************************************************)
(* Claims about stripYearFromSlug (checked under SpecSlug)                 *)
(***************************************************************************)

\* What section 4.1 of the specification says the function returns:
\* the string without its last hyphen and what follows it exactly when the
\* string has at least 5 characters, has a hyphen, and the part after the
\* last hyphen is exactly 4 decimal digits; the string itself otherwise.
EndsWithYear(s) ==
    /\ Len(s) >= MinSlugLen
    /\ LastIndexOf(s, "-") # -1
    /\ LET tail == Slice(s, LastIndexOf(s, "-") + 1, Len(s))
       IN  Len(tail) = YearLen /\ AllIn(tail, Digits)

WithoutLastToken(s) == Slice(s, 0, LastIndexOf(s, "-"))

\* The text before the last hyphen of s itself ends in a hyphen followed by
\* exactly 4 characters (s ends in two hyphen-led tokens, the first of 4
\* characters).
FourCharTokenBeforeLast(s) ==
    /\ LastIndexOf(s, "-") # -1
    /\ LET prefix == WithoutLastToken(s)
       IN  /\ Len(prefix) >= MinSlugLen
           /\ LastIndexOf(prefix, "-") = Len(prefix) - (YearLen + 1)

C5_StripsExactlyFourDigitYear ==
    spc # "input" =>
        once = (IF EndsWithYear(slug) THEN WithoutLastToken(slug) ELSE slug)

(***************************************************************************)
(* getMovieDataFromHtml: one tr.diary-entry-row.                           *)
(*                                                                         *)
(* A row is what the selectors read from it: the data-film-id and          *)
(* data-film-slug attributes of the film div (Null when cheerio's attr()   *)
(* returns undefined) and the href of the day link.  The href is held as   *)
(* the list of its '/'-separated pieces, which is what split('/') returns: *)
(* a non-empty list of slash-free strings, the empty href being the list   *)
(* of one empty piece.                                                     *)
(***************************************************************************)
Truthy(s) == s # Null /\ s # <<>>

FilmId(r) == IF Truthy(r.filmIdAttr) THEN Trim(r.filmIdAttr) ELSE Null

FilmSlug(r) == IF Truthy(r.slugAttr) THEN stripYearFromSlug(Trim(r.slugAttr)) ELSE Null

\* filmId.split('').join('/')
RECURSIVE JoinChars(_)
JoinChars(s) ==
    IF Len(s) <= 1 THEN s ELSE <<s[1], "/">> \o JoinChars(Tail(s))

PosterPrefix == <<"https://a.ltrbxd.com/resized/film-poster/">>
PosterSuffix == <<"-0-300-0-450-crop.jpg">>

\* the poster URL built whenever the film id alone is truthy
PosterUrl_IdOnly(filmId, filmSlug) ==
    IF Truthy(filmId)
    THEN PosterPrefix \o JoinChars(filmId) \o <<"/">> \o filmId \o <<"-">>
            \o filmSlug \o PosterSuffix
    ELSE Null

PosterUrl(filmId, filmSlug) ==
    IF Truthy(filmId) /\ Truthy(filmSlug)
    THEN PosterPrefix \o JoinChars(filmId) \o <<"/">> \o filmId \o <<"-">>
            \o filmSlug \o PosterSuffix
    ELSE Null

\* dateUrl.split('/').filter(Boolean)
DateParts(href) == SelectSeq(href, LAMBDA p : p # <<>>)

ForSegment == <<"f", "o", "r">>

\* dateParts.indexOf('for'): 0-based index of the first 'for', -1 when none
IndexOfFor(parts) ==
    IF \E i \in 1..Len(parts) : parts[i] = ForSegment
    THEN (CHOOSE i \in 1..Len(parts) :
            parts[i] = ForSegment /\ \A j \in 1..(i-1) : parts[j] # ForSegment) - 1
    ELSE -1

(***************************************************************************)
(* new Date(string).  Date.parse first reads the ECMAScript date-time      *)
(* string format; the date-only form YYYY-MM-DD is UTC midnight of that    *)
(* day.  A string that is not of the format is left to implementation-     *)
(* specific heuristics.  A day of month 29..31 that the month does not     *)
(* have is rejected by some engines (an Invalid Date) and carried over     *)
(* into the next month by others (V8, the engine of Node.js): both         *)
(* outcomes are kept.                                                      *)
(***************************************************************************)
NullDate == [kind |-> "null"]
InvalidDate == [kind |-> "invalid"]
HeuristicDate == [kind |-> "implementation-defined"]
MkDate(y, m, d) == [kind |-> "date", y |-> y, m |-> m, d |-> d]

DigitVal(c) == CHOOSE n \in 0..9 : <<"0","1","2","3","4","5","6","7","8","9">>[n + 1] = c

RECURSIVE ToNat(_)
ToNat(s) == IF s = <<>> THEN 0 ELSE ToNat(SubSeq(s, 1, Len(s) - 1)) * 10 + DigitVal(s[Len(s)])

IsLeapYear(y) == (y % 4 = 0 /\ y % 100 # 0) \/ y % 400 = 0

DaysInMonth(y, m) ==
    IF m = 2 THEN (IF IsLeapYear(y) THEN 29 ELSE 28)
    ELSE IF m \in {4, 6, 9, 11} THEN 30 ELSE 31

\* YYYY-MM-DD: ten characters, digits around two hyphens
IsDateOnlyFormat(s) ==
    /\ Len(s) = 10
    /\ s[5] = "-" /\ s[8] = "-"
    /\ AllIn(SubSeq(s, 1, 4), Digits)
    /\ AllIn(SubSeq(s, 6, 7), Digits)
    /\ AllIn(SubSeq(s, 9, 10), Digits)

IsCalendarDate(y, m, d) == m \in 1..12 /\ d \in 1..DaysInMonth(y, m)

\* the values new Date(s) may take
NewDate(s) ==
    IF IsDateOnlyFormat(s)
    THEN LET y == ToNat(SubSeq(s, 1, 4))
             m == ToNat(SubSeq(s, 6, 7))
             d == ToNat(SubSeq(s, 9, 10))
         IN  IF IsCalendarDate(y, m, d) THEN {MkDate(y, m, d)}
             ELSE IF m \in 1..12 /\ d \in 1..31
                  THEN {InvalidDate, MkDate(y, m + 1, d - DaysInMonth(y, m))}
                  ELSE {InvalidDate}
    ELSE {InvalidDate, HeuristicDate}

\* the values watchDate may take for the row's day link
WatchDates(href) ==
    IF href # Null /\ href # << <<>> >>
    THEN LET dateParts == DateParts(href)
             forIndex == IndexOfFor(dateParts)
         IN  IF forIndex # -1 /\ Len(dateParts) > forIndex + 3
             THEN NewDate(dateParts[forIndex + 2] \o <<"-">> \o dateParts[forIndex + 3]
                            \o <<"-">> \o dateParts[forIndex + 4])
             ELSE {NullDate}
    ELSE {NullDate}

\* Date.prototype.toJSON inside JSON.stringify: null for an Invalid Date
DateToJson(d) == IF d.kind = "invalid" THEN NullDate ELSE d

(***************************************************************************)
(* Specification SpecParse: one diary row parsed, then serialized.         *)
(***************************************************************************)
IdAttrs == {Null} \cup Strs({"1", "2", " "}, MaxIdLen)
SlugAttrs == {Null} \cup Strs({"-", "1", " "}, MaxAttrLen)

Segments ==
    { <<>>, ForSegment, <<"u">>, <<"2", "0", "2", "4">>, <<"0", "2">>, <<"1", "3">>,
      <<"2", "9">>, <<"3", "0">> }
Hrefs == {Null} \cup UNION {[1..k -> Segments] : k \in 1..MaxSegs}

\* the film div is selected by its data-film-id attribute: without it there
\* is no element to read a slug from
RowInputs ==
    {r \in [filmIdAttr : IdAttrs, slugAttr : SlugAttrs, href : {Null}] :
        r.filmIdAttr = Null => r.slugAttr = Null}
    \cup [filmIdAttr : {<<"1", "2">>}, slugAttr : {<<"1">>}, href : Hrefs]

InitParse ==
    /\ IdleSlug /\ IdleHandler /\ IdleApp
    /\ row \in RowInputs
    /\ movie = Null
    /\ entryJson = Null
    /\ ppc = "row"

\* the callback of $('tr.diary-entry-row').each
ParseRow ==
    /\ ppc = "row"
    /\ \E watchDate \in WatchDates(row.href) :
         movie' = [filmId |-> FilmId(row),
                   posterUrl |-> PosterUrl(FilmId(row), FilmSlug(row)),
                   watchDate |-> watchDate]
    /\ ppc' = "parsed"
    /\ UNCHANGED <<row, entryJson>>
    /\ UNCHANGED <<slugVars, handlerVars, appVars>>

\* JSON.stringify of the entry in the handler's response body
StringifyEntry ==
    /\ ppc = "parsed"
    /\ entryJson' = [movie EXCEPT !.watchDate = DateToJson(@)]
    /\ ppc' = "sent"
    /\ UNCHANGED <<row, movie>>
    /\ UNCHANGED <<slugVars, handlerVars, appVars>>

NextParse == ParseRow \/ StringifyEntry

SpecParse == InitParse /\ [][NextParse]_vars

(***************************************************************************)
(* Claims about getMovieDataFromHtml (checked under SpecParse)             *)
(***************************************************************************)
IsNonEmptyString(v) == v # Null /\ Len(v) > 0

\* C6 (as stated): the entry's poster URL is present if and only if the
\* row's media id (after trimming) and its slug (after year stripping) are
\* both present and non-null.
C6_PosterIffIdAndSlugNonNull ==
    ppc \in {"parsed", "sent"} =>
        (movie.posterUrl # Null <=> (FilmId(row) # Null /\ FilmSlug(row) # Null))

\* C6 (amended): the entry's poster URL is present if and only if the row's
\* media id after trimming and its slug after trimming and year stripping
\* are both non-empty strings; an id or slug that is null or the empty
\* string leaves the poster URL absent.
C6_PosterIffIdAndSlugNonEmpty ==
    ppc \in {"parsed", "sent"} =>
        (movie.posterUrl # Null <=>
            (IsNonEmptyString(movie.filmId) /\ IsNonEmptyString(FilmSlug(row))))

\* C6 witness: a parsed row whose slug lost its year and whose poster URL
\* was built.
C6_Witness ==
    /\ ppc = "parsed"
    /\ movie.posterUrl # Null
    /\ FilmSlug(row) # Trim(row.slugAttr)

\* the non-empty '/'-separated segments of the day link
HrefSegments == IF row.href = Null THEN <<>> ELSE SelectSeq(row.href, LAMBDA p : p # <<>>)

\* Y, M, D written as a four-digit year, a two-digit month and a two-digit day
IsNumericTriple(y, m, d) ==
    /\ Len(y) = 4 /\ AllIn(y, Digits)
    /\ Len(m) = 2 /\ AllIn(m, Digits)
    /\ Len(d) = 2 /\ AllIn(d, Digits)

IsDateTriple(y, m, d) ==
    IsNumericTriple(y, m, d) /\ IsCalendarDate(ToNat(y), ToNat(m), ToNat(d))

\* C7: when the segments of the day link end with "for", Y, M, D, whatever
\* precedes them, the entry's logged date is the date Y-M-D; when there is
\* no "for" segment, or fewer than 3 segments follow it, the logged date is
\* absent.
C7_DateFromTrailingForYMD ==
    ppc = "sent" =>
        LET segs == HrefSegments
            n == Len(segs)
        IN  /\ (/\ n >= 4
                /\ segs[n - 3] = ForSegment
                /\ IsDateTriple(segs[n - 2], segs[n - 1], segs[n]))
               => entryJson.watchDate =
                     MkDate(ToNat(segs[n - 2]), ToNat(segs[n - 1]), ToNat(segs[n]))
            /\ (\/ \A i \in 1..n : segs[i] # ForSegment
                \/ \A i \in 1..n : segs[i] = ForSegment => n < i + 3)
               => entryJson.watchDate = NullDate

\* C8: when the three segments after the "for" marker are a year, a month
\* and a day that do not form a valid calendar date, the entry's logged
\* date is absent, not some other date.
C8_InvalidDateIsAbsent ==
    ppc = "sent" =>
        LET segs == HrefSegments
            n == Len(segs)
        IN  \A i \in 1..n :
                (/\ segs[i] = ForSegment
                 /\ \A j \in 1..(i - 1) : segs[j] # ForSegment
                 /\ n >= i + 3
                 /\ IsNumericTriple(segs[i + 1], segs[i + 2], segs[i + 3])
                 /\ ~IsDateTriple(segs[i + 1], segs[i + 2], segs[i + 3]))
                => entryJson.watchDate = NullDate

(***************************************************************************)
(* handler(event)                                                          *)
(*                                                                         *)
(* A URL is a sequence of pieces whose concatenation is the address; the   *)
(* allowed origin is one piece.  A page's HTML is what the handler reads   *)
(* from it: the li.paginate-page items and the diary rows, in document     *)
(* order.  Each await is a point where the handler is suspended; what runs *)
(* between two awaits is one step.                                         *)
(***************************************************************************)
Origin == <<"https://letterboxd.com/">>

\* s.startsWith(prefix)
StartsWith(s, prefix) ==
    Len(s) >= Len(prefix) /\ SubSeq(s, 1, Len(prefix)) = prefix

\* s.includes(part), for a one-piece part
Includes(s, part) == \E i \in 1..Len(s) : <<s[i]>> = part

\* the origin test with includes in place of startsWith
IsAllowedUrl_Includes(url) == url # Null /\ url # <<>> /\ Includes(url, Origin)

\* !(!url || !url.startsWith("https://letterboxd.com/"))
IsAllowedUrl(url) == url # Null /\ url # <<>> /\ StartsWith(url, Origin)

\* !(!event.queryStringParameters || !event.queryStringParameters.url)
HasUrl(ev) == ev.hasParams /\ ev.url # Null /\ ev.url # <<>>

\* $('.paginate-pages li.paginate-page').length
getPageCountFromHtml(html) == Len(html.paginatePages)

\* one entry per tr.diary-entry-row, in document order
getMovieDataFromHtml(html) == [i \in 1..Len(html.rows) |-> [entryOf |-> html.rows[i]]]

\* the loop starting at page 1
PageUrls_FromOne(url, pageCount) ==
    [j \in 1..pageCount |-> url \o <<"page/", ToString(j), "/">>]

\* for (let i = 2; i <= pageCount; i++) pageUrls.push(`${url}page/${i}/`)
PageUrls(url, pageCount) ==
    [j \in 1..(IF pageCount >= 2 THEN pageCount - 1 ELSE 0) |->
        url \o <<"page/", ToString(j + 1), "/">>]

\* values in the order in which the promises were fulfilled
PromiseAllValues_ByCompletion(values, order) ==
    [j \in 1..Len(order) |-> values[order[j]]]

\* the array Promise.all resolves to: one value per promise, by index
PromiseAllValues(values, order) == values

\* a combinator that waits for every promise and never rejects
PromiseAllState_Settled(states) ==
    IF \A i \in 1..Len(states) : states[i] \in {"fulfilled", "rejected"}
    THEN "fulfilled" ELSE "pending"

\* Promise.all: rejected as soon as one promise is, fulfilled when all are
PromiseAllState(states) ==
    IF \E i \in 1..Len(states) : states[i] = "rejected" THEN "rejected"
    ELSE IF \A i \in 1..Len(states) : states[i] = "fulfilled" THEN "fulfilled"
    ELSE "pending"

\* paginatedMovies.flatMap(pageData => pageData.movies)
RECURSIVE FlatMap(_)
FlatMap(pages) == IF pages = <<>> THEN <<>> ELSE Head(pages) \o FlatMap(Tail(pages))

\* [...movies, ...paginatedMovies.flatMap(pageData => pageData.movies)]
AllMovies(first, paginatedMovies) == first \o FlatMap(paginatedMovies)

\* the handler has not returned
NoResponse == [statusCode |-> 0, body |-> [pending |-> TRUE]]
NoUrlResponse == [statusCode |-> 400, body |-> [error |-> "No URL provided"]]
InvalidUrlResponse == [statusCode |-> 400, body |-> [error |-> "Invalid URL"]]
FailedResponse == [statusCode |-> 500, body |-> [error |-> "Failed to fetch data"]]
OkResponse(status, all) == [statusCode |-> status, body |-> [movies |-> all]]

\* the remote site: page p of the diary
RowsOfPage(p) == [r \in 1..site.rows[p] |-> <<p, r>>]
HtmlOfPage(p) ==
    [paginatePages |-> IF p = 1 THEN [k \in 1..site.pageCount |-> k] ELSE <<>>,
     rows |-> RowsOfPage(p)]

\* the page whose address is url: the number in its page/<k>/ suffix
PageOfUrl(url) == CHOOSE k \in 1..(MaxPages + 1) : ToString(k) = url[Len(url) - 1]

\* the rest of the handler once the page promises' combined state is known:
\* the catch block, the merge and the success response, or still suspended
Settle(states, values, order, status, first, resp) ==
    CASE PromiseAllState(states) = "rejected" -> FailedResponse
      [] PromiseAllState(states) = "fulfilled" ->
            OkResponse(status, AllMovies(first, PromiseAllValues(values, order)))
      [] OTHER -> resp

(***************************************************************************)
(* Specification Spec: one invocation of the handler against a remote site *)
(* whose fetches complete, or fail, in any order.                          *)
(***************************************************************************)
GoodUrl == Origin \o <<"u/films/diary/">>
Urls ==
    { Null, <<>>, GoodUrl,
      <<"https://example.com/", "evil">>,
      <<"https://example.com/?u=", "https://letterboxd.com/">>,
      <<"http://letterboxd.com/", "u/films/diary/">> }
Events ==
    {[hasParams |-> FALSE, url |-> Null]} \cup [hasParams : {TRUE}, url : Urls]

\* pages 1..max(pageCount, 1) exist; the others have no rows
Sites ==
    {s \in [pageCount : 0..MaxPages, rows : [1..MaxPages -> 0..MaxRows]] :
        \A q \in 1..MaxPages : (q > 1 /\ q > s.pageCount) => s.rows[q] = 0}

Init ==
    /\ IdleSlug /\ IdleParse /\ IdleApp
    /\ event \in Events
    /\ site \in Sites
    /\ hpc = "start"
    /\ issued = <<>>
    /\ fstate = "none"
    /\ firstStatus = 0
    /\ movies = <<>>
    /\ pageUrls = <<>>
    /\ pstate = <<>>
    /\ pvalue = <<>>
    /\ completed = <<>>
    /\ response = NoResponse

\* lines 125-147: the two URL checks, then the fetch of the first page
Invoke ==
    /\ hpc = "start"
    /\ IF ~HasUrl(event)
       THEN response' = NoUrlResponse /\ hpc' = "done" /\ UNCHANGED <<issued, fstate>>
       ELSE IF ~IsAllowedUrl(event.url)
       THEN response' = InvalidUrlResponse /\ hpc' = "done" /\ UNCHANGED <<issued, fstate>>
       ELSE issued' = Append(issued, event.url) /\ fstate' = "fetching"
            /\ hpc' = "fetchFirst" /\ UNCHANGED response
    /\ UNCHANGED <<event, site, firstStatus, movies, pageUrls, pstate, pvalue, completed>>
    /\ UNCHANGED <<slugVars, parseVars, appVars>>

\* the first fetch rejects: the catch block
FirstFetchRejects ==
    /\ hpc = "fetchFirst"
    /\ fstate' = "rejected"
    /\ response' = FailedResponse
    /\ hpc' = "done"
    /\ UNCHANGED <<event, site, issued, firstStatus, movies, pageUrls, pstate, pvalue,
                   completed>>
    /\ UNCHANGED <<slugVars, parseVars, appVars>>

\* the first fetch resolves with some status: firstPageResponse.text()
FirstFetchResolves ==
    /\ hpc = "fetchFirst"
    /\ \E status \in {200, 404} : firstStatus' = status
    /\ fstate' = "reading"
    /\ hpc' = "textFirst"
    /\ UNCHANGED <<event, site, issued, movies, pageUrls, pstate, pvalue, completed,
                   response>>
    /\ UNCHANGED <<slugVars, parseVars, appVars>>

\* reading the first body rejects: the catch block
FirstTextRejects ==
    /\ hpc = "textFirst"
    /\ fstate' = "rejected"
    /\ response' = FailedResponse
    /\ hpc' = "done"
    /\ UNCHANGED <<event, site, issued, firstStatus, movies, pageUrls, pstate, pvalue,
                   completed>>
    /\ UNCHANGED <<slugVars, parseVars, appVars>>

\* lines 149-168: the first page is parsed, the page addresses are planned and
\* every one of them is fetched; with no page to wait for, lines 171-187
FirstTextResolves ==
    /\ hpc = "textFirst"
    /\ fstate' = "fulfilled"
    /\ LET firstPageHtml == HtmlOfPage(1)
           pageCount == getPageCountFromHtml(firstPageHtml)
           first == getMovieDataFromHtml(firstPageHtml)
           urls == PageUrls(event.url, pageCount)
           states == [i \in 1..Len(urls) |-> "fetching"]
           values == [i \in 1..Len(urls) |-> <<>>]
           resp == Settle(states, values, <<>>, firstStatus, first, NoResponse)
       IN  /\ movies' = first
           /\ pageUrls' = urls
           /\ issued' = issued \o urls
           /\ pstate' = states
           /\ pvalue' = values
           /\ response' = resp
           /\ hpc' = IF resp # NoResponse THEN "done" ELSE "pages"
    /\ UNCHANGED <<event, site, firstStatus, completed>>
    /\ UNCHANGED <<slugVars, parseVars, appVars>>

\* a change of one page promise, and the handler's continuation if it is
\* still waiting for them
PageStep(states, values, order) ==
    /\ pstate' = states
    /\ pvalue' = values
    /\ completed' = order
    /\ IF hpc = "pages"
       THEN LET resp == Settle(states, values, order, firstStatus, movies, NoResponse)
            IN  response' = resp /\ hpc' = IF resp # NoResponse THEN "done" ELSE "pages"
       ELSE UNCHANGED <<response, hpc>>
    /\ UNCHANGED <<event, site, issued, fstate, firstStatus, movies, pageUrls>>
    /\ UNCHANGED <<slugVars, parseVars, appVars>>

\* fetch(pageUrl) resolves: res.text()
PageFetchResolves ==
    \E i \in 1..Len(pstate) :
        /\ pstate[i] = "fetching"
        /\ PageStep([pstate EXCEPT ![i] = "reading"], pvalue, completed)

\* fetch(pageUrl) rejects
PageFetchRejects ==
    \E i \in 1..Len(pstate) :
        /\ pstate[i] = "fetching"
        /\ PageStep([pstate EXCEPT ![i] = "rejected"], pvalue, completed)

\* res.text() rejects
PageTextRejects ==
    \E i \in 1..Len(pstate) :
        /\ pstate[i] = "reading"
        /\ PageStep([pstate EXCEPT ![i] = "rejected"], pvalue, completed)

\* res.text() resolves: getMovieDataFromHtml(html) is the promise's value
PageTextResolves ==
    \E i \in 1..Len(pstate) :
        /\ pstate[i] = "reading"
        /\ PageStep([pstate EXCEPT ![i] = "fulfilled"],
                    [pvalue EXCEPT ![i] =
                        getMovieDataFromHtml(HtmlOfPage(PageOfUrl(pageUrls[i])))],
                    Append(completed, i))

Next ==
    \/ Invoke
    \/ FirstFetchRejects
    \/ FirstFetchResolves
    \/ FirstTextRejects
    \/ FirstTextResolves
    \/ PageFetchResolves
    \/ PageFetchRejects
    \/ PageTextRejects
    \/ PageTextResolves

Spec == Init /\ [][Next]_vars

(***************************************************************************)
(* Claims about the handler (checked under Spec)                           *)
(***************************************************************************)
IsSuccess(resp) == "movies" \in DOMAIN resp.body
IsFailure(resp) == DOMAIN resp.body = {"error"}

\* the entries of pages 1..p of the site, page by page, rows in row order
RECURSIVE EntriesUpTo(_)
EntriesUpTo(p) ==
    IF p = 0 THEN <<>>
    ELSE EntriesUpTo(p - 1) \o [r \in 1..site.rows[p] |-> [entryOf |-> <<p, r>>]]

\* C1: for a profile of N >= 2 pages, whatever the order in which the
\* fetches of pages 2..N complete, the entries of a successful response are
\* those of pages 1, 2, ..., N in page order, each page's rows in row order.
C1_MergedInPageOrder ==
    (IsSuccess(response) /\ site.pageCount >= 2) =>
        response.body.movies = EntriesUpTo(site.pageCount)

\* C1 witness: a successful response for three pages of two rows each whose
\* later page was fulfilled before an earlier one.
C1_Witness ==
    /\ IsSuccess(response)
    /\ site.pageCount >= 3
    /\ \A p \in 1..3 : site.rows[p] >= 2
    /\ \E j, k \in 1..Len(completed) : j < k /\ completed[j] > completed[k]

AnyFetchRejected ==
    fstate = "rejected" \/ \E i \in 1..Len(pstate) : pstate[i] = "rejected"

\* C2: once the fetch of page 1 or of any later page has failed, the handler
\* has returned a failure response (an error message, no entries); a
\* success response exists only when every fetch issued has succeeded.
C2_AllOrNothing ==
    /\ AnyFetchRejected => (hpc = "done" /\ IsFailure(response))
    /\ IsSuccess(response) =>
          /\ fstate = "fulfilled"
          /\ Len(issued) = 1 + Len(pstate)
          /\ \A i \in 1..Len(pstate) : pstate[i] = "fulfilled"

\* C2 witness: a failure response although one later page was fetched and
\* parsed into entries before another failed.
C2_Witness ==
    /\ IsFailure(response)
    /\ \E i, j \in 1..Len(pstate) :
          pstate[i] = "fulfilled" /\ pvalue[i] # <<>> /\ pstate[j] = "rejected"

UrlMissingOrForeign ==
    \/ ~event.hasParams
    \/ event.url = Null
    \/ ~StartsWith(event.url, Origin)

\* C3: when the url is missing or does not start with
\* "https://letterboxd.com/", the handler's first step returns a failure
\* response and no fetch is ever issued.
C3_NoFetchForForeignUrl ==
    UrlMissingOrForeign =>
        /\ issued = <<>>
        /\ fstate = "none"
        /\ \/ hpc = "start"
           \/ hpc = "done" /\ IsFailure(response) /\ response.statusCode = 400

\* C3 witness: the handler has returned for https://example.com/evil.
C3_Witness ==
    /\ hpc = "done"
    /\ event.hasParams
    /\ event.url = <<"https://example.com/", "evil">>

\* C9: once the first page, of page count N, is parsed, the fetches issued
\* are the first page's and then base + "page/k/" for k = 2, ..., N, one per
\* k in increasing k, and none but the first page's when N <= 1; before
\* that, at most the first page's.
C9_PagesTwoToN ==
    IF fstate = "fulfilled"
    THEN /\ Len(issued) = (IF site.pageCount <= 1 THEN 1 ELSE site.pageCount)
         /\ issued[1] = event.url
         /\ \A k \in 2..Len(issued) :
               issued[k] = event.url \o <<"page/", ToString(k), "/">>
         /\ pageUrls = SubSeq(issued, 2, Len(issued))
    ELSE issued \in {<<>>, <<event.url>>} /\ pageUrls = <<>>

\* C9 witness: a first page of page count 3 has been parsed and three
\* fetches have been issued.
C9_Witness ==
    /\ fstate = "fulfilled"
    /\ site.pageCount = 3
    /\ Len(issued) = 3

(***************************************************************************)
(* The App component.                                                      *)
(*                                                                         *)
(* fetchData runs from a click to its first await, from the settling of    *)
(* the two fetches to its second await, and from the settling of the two   *)
(* json() promises to its end; each stretch is one step, and the state     *)
(* setters of a stretch take effect together.  Invocations started by      *)
(* further clicks run side by side.  An error message is a sequence of     *)
(* pieces.                                                                 *)
(***************************************************************************)
SELECT_USERS == "select-users"
LOADING == "loading"
ERROR == "error"
COMPARE == "compare"

NullData == [kind |-> "null"]
AvatarPlaceholder == <<"avatar-placeholder.webp">>

\* the body of a proxy response as parsed by json()
ParsedBody(name, outcome) ==
    CASE outcome = "null" -> NullData
      [] outcome = "with-picture" ->
            [kind |-> "object", name |-> name, profilePicUrl |-> <<"pic/", name>>]
      [] OTHER -> [kind |-> "object", name |-> name, profilePicUrl |-> Null]

\* if (!data.profilePicUrl) data.profilePicUrl = avatarPlaceholder
WithDefaultPicture(data) ==
    IF data.profilePicUrl = Null THEN [data EXCEPT !.profilePicUrl = AvatarPlaceholder]
    ELSE data

\* user data that keeps only the first user's
NewUserData_FirstOnly(data1, data2) ==
    [user1 |-> WithDefaultPicture(data1), user2 |-> NullData]

\* the argument of setUserData
NewUserData(data1, data2) ==
    [user1 |-> WithDefaultPicture(data1), user2 |-> WithDefaultPicture(data2)]

FetchFailedMessage == <<"Failed to fetch">>
JsonFailedMessage == <<"Unexpected token in JSON">>
NullDataMessage == <<"Cannot read properties of null">>
NotOkMessage(name) == <<"Error fetching ">> \o name \o <<": ", "statusText">>

Usernames == {<<>>, <<"ann">>}

(***************************************************************************)
(* Specification SpecApp: typing, clicks on Fetch and the completions of   *)
(* the invocations' fetches and json() calls, in any order.                *)
(***************************************************************************)
InitApp ==
    /\ IdleSlug /\ IdleParse /\ IdleHandler
    /\ appState = SELECT_USERS
    /\ user1Username = <<>>
    /\ user2Username = <<>>
    /\ error = Null
    /\ userData = [user1 |-> NullData, user2 |-> NullData]
    /\ calls = <<>>

\* the two inputs are rendered unless appState is COMPARE
TypeUser1 ==
    /\ appState # COMPARE
    /\ \E u \in Usernames : u # user1Username /\ user1Username' = u
    /\ UNCHANGED <<appState, user2Username, error, userData, calls>>
    /\ UNCHANGED <<slugVars, parseVars, handlerVars>>

TypeUser2 ==
    /\ appState # COMPARE
    /\ \E u \in Usernames : u # user2Username /\ user2Username' = u
    /\ UNCHANGED <<appState, user1Username, error, userData, calls>>
    /\ UNCHANGED <<slugVars, parseVars, handlerVars>>

\* a click on Fetch (rendered, and never disabled, unless appState is
\* COMPARE): fetchData up to its first await
ClickFetch ==
    /\ appState # COMPARE
    /\ Len(calls) < MaxCalls
    /\ error' = Null
    /\ appState' = LOADING
    /\ calls' = Append(calls, [names |-> <<user1Username, user2Username>>,
                               pc |-> "fetch",
                               r |-> <<"pending", "pending">>,
                               j |-> <<"none", "none">>])
    /\ UNCHANGED <<user1Username, user2Username, userData>>
    /\ UNCHANGED <<slugVars, parseVars, handlerVars>>

\* an invocation that has run to its end: its locals are gone, and a promise
\* of its that settles later has no one waiting for it
Ended(how) == [names |-> <<>>, pc |-> how, r |-> <<>>, j |-> <<>>]

\* the catch block of invocation c
Fail(c, message) ==
    /\ calls' = [calls EXCEPT ![c] = Ended("failed")]
    /\ error' = message
    /\ appState' = ERROR
    /\ UNCHANGED userData

\* nothing of the component changes: the invocation goes on waiting
Quiet(c, call) ==
    /\ calls' = [calls EXCEPT ![c] = call]
    /\ UNCHANGED <<appState, error, userData>>

\* one of the two fetches of invocation c settles
FetchSettles ==
    \E c \in 1..Len(calls), k \in 1..2, outcome \in {"ok", "not-ok", "rejected"} :
        /\ calls[c].pc = "fetch"
        /\ calls[c].r[k] = "pending"
        /\ LET call == [calls[c] EXCEPT !.r[k] = outcome]
           IN  IF outcome = "rejected" THEN Fail(c, FetchFailedMessage)
               ELSE IF "pending" \in {call.r[1], call.r[2]} THEN Quiet(c, call)
               ELSE IF call.r[1] = "not-ok" THEN Fail(c, NotOkMessage(call.names[1]))
               ELSE IF call.r[2] = "not-ok" THEN Fail(c, NotOkMessage(call.names[2]))
               ELSE Quiet(c, [call EXCEPT !.pc = "json", !.j = <<"pending", "pending">>])
        /\ UNCHANGED <<user1Username, user2Username>>
        /\ UNCHANGED <<slugVars, parseVars, handlerVars>>

\* one of the two json() promises of invocation c settles
JsonSettles ==
    \E c \in 1..Len(calls), k \in 1..2,
       outcome \in {"with-picture", "without-picture", "null", "rejected"} :
        /\ calls[c].pc = "json"
        /\ calls[c].j[k] = "pending"
        /\ LET call == [calls[c] EXCEPT !.j[k] = outcome]
               data1 == ParsedBody(call.names[1], call.j[1])
               data2 == ParsedBody(call.names[2], call.j[2])
           IN  IF outcome = "rejected" THEN Fail(c, JsonFailedMessage)
               ELSE IF "pending" \in {call.j[1], call.j[2]} THEN Quiet(c, call)
               ELSE IF NullData \in {data1, data2} THEN Fail(c, NullDataMessage)
               ELSE /\ calls' = [calls EXCEPT ![c] = Ended("compared")]
                    /\ userData' = NewUserData(data1, data2)
                    /\ appState' = COMPARE
                    /\ UNCHANGED error
        /\ UNCHANGED <<user1Username, user2Username>>
        /\ UNCHANGED <<slugVars, parseVars, handlerVars>>

NextApp == TypeUser1 \/ TypeUser2 \/ ClickFetch \/ FetchSettles \/ JsonSettles

SpecApp == InitApp /\ [][NextApp]_vars

(***************************************************************************)
(* Claim about the App component (checked under SpecApp)                   *)
(***************************************************************************)
\* the invocation is at its second await with both responses ok and no
\* body parsed to null or failed
AboutToCompare(call) ==
    /\ call.pc = "json"
    /\ call.r = <<"ok", "ok">>
    /\ \A k \in 1..2 : call.j[k] \in {"with-picture", "without-picture", "pending"}

FailureMessages ==
    {FetchFailedMessage, JsonFailedMessage, NullDataMessage}
        \cup {NotOkMessage(u) : u \in Usernames}

CompareHasBothUsers ==
    appState = COMPARE => (userData.user1 # NullData /\ userData.user2 # NullData)

LeavesLoadingProperly ==
    (appState = LOADING /\ appState' # LOADING) =>
        \/ /\ appState' = COMPARE
           /\ \E c \in 1..Len(calls) :
                 /\ AboutToCompare(calls[c])
                 /\ calls'[c].pc = "compared"
                 /\ userData'.user1.name = calls[c].names[1]
                 /\ userData'.user2.name = calls[c].names[2]
        \/ /\ appState' = ERROR
           /\ error' \in FailureMessages

\* C10: under every interleaving of clicks on Fetch and completions of
\* overlapping fetchData invocations, appState = COMPARE implies that
\* userData.user1 and userData.user2 are both non-null, and appState leaves
\* LOADING only to COMPARE (an invocation ending with both responses ok and
\* parsed) or to ERROR (with error set to the failure message).
C10_CompareAndLoadingExits ==
    []CompareHasBothUsers /\ [][LeavesLoadingProperly]_vars

\* C10 witness: COMPARE reached by one invocation after an overlapping one
\* had failed (its message still in error).
C10_Witness ==
    /\ appState = COMPARE
    /\ Len(calls) >= 2
    /\ error # Null

====
